---- MODULE Spec2Model ----
(***************************************************************************)
(* digcname: dangling-CNAME scanner.  The repository holds five iterations *)
(* of one program (two in src/main.go, one in each of part_000, part_001    *)
(* and part_002).  Every iteration runs the same loop, checkCNAMERecords,   *)
(* over the input subdomains, calls `dig +short CNAME <subdomain>` through  *)
(* getCNAMERecord, stores one value per subdomain in a Go map and then      *)
(* ranges over that map to print or write the report.                       *)
(*                                                                          *)
(* Go strings are modelled as sequences of one-character strings, so that   *)
(* TrimSpace, Contains and HasPrefix are computed, not assumed.             *)
(***************************************************************************)
EXTENDS Integers, Sequences, FiniteSets

VARIABLES
    prog,        \* which of the five programs runs
    subdomains,  \* []string read from the subdomains file
    patterns,    \* []string read from the patterns file (part_000, part_001)
    pc,          \* position of main: "loop", "resolving", "report", "exit", "fatal", "pure"
    idx,         \* 1-based position of the range loop of checkCNAMERecords
    results,     \* the local map `results` of checkCNAMERecords
    ret,         \* what checkCNAMERecords returned: [returned, isNil, results, err]
    calls,       \* the dig runs so far: [subdomain, outcome], outcome <<>> while running
    report,      \* the lines printed / written to the result file, in order
    pending,     \* keys the `range results` loop of main has not visited yet
    op,          \* PureSpec: the function under test
    arg,         \* PureSpec: its argument
    out          \* PureSpec: <<>> before the call, <<value>> after it

vars == <<prog, subdomains, patterns, pc, idx, results, ret, calls, report,
          pending, op, arg, out>>

scanVars == <<prog, subdomains, patterns, pc, idx, results, ret, calls, report,
              pending>>

pureVars == <<op, arg, out>>

----------------------------------------------------------------------------
(* Bounds *)

\* longest input list of subdomains
MaxSubs == 3

\* longest enumerated text (dig's stdout, a CNAME handed to the normalizer)
MaxLen == 3

\* longest enumerated domain handed to the matcher
MaxDomLen == 2

\* longest enumerated fingerprint list handed to the matcher
MaxPatterns == 2

----------------------------------------------------------------------------
(* String literals of the source, as character sequences *)

\* "status: NXDOMAIN"
NxMarker == <<"s", "t", "a", "t", "u", "s", ":", " ", "N", "X", "D", "O", "M", "A", "I", "N">>

\* "No CNAME record"
NoCnameText == <<"N", "o", " ", "C", "N", "A", "M", "E", " ", "r", "e", "c", "o", "r", "d">>

\* "NXDOMAIN"
NxDomainText == <<"N", "X", "D", "O", "M", "A", "I", "N">>

\* "NO CNAME"
StatusNoCname == <<"N", "O", " ", "C", "N", "A", "M", "E">>

\* "CNAME FOUND"
StatusCnameFound == <<"C", "N", "A", "M", "E", " ", "F", "O", "U", "N", "D">>

\* "Status: NXDOMAIN"
DetailNxDomain == <<"S", "t", "a", "t", "u", "s", ":", " ", "N", "X", "D", "O", "M", "A", "I", "N">>

\* "Status: noerror"
DetailNoError == <<"S", "t", "a", "t", "u", "s", ":", " ", "n", "o", "e", "r", "r", "o", "r">>

\* "*."
WildcardPrefix == <<"*", ".">>

----------------------------------------------------------------------------
(* The strings package, as the programs use it *)

\* unicode.IsSpace on the characters that occur: ' ', \t, \n, \r, \f
IsSpace(c) == c \in {" ", "\t", "\n", "\r", "\f"}

RECURSIVE TrimLeftSpace(_)
TrimLeftSpace(s) ==
    IF s = <<>> THEN <<>>
    ELSE IF IsSpace(Head(s)) THEN TrimLeftSpace(Tail(s))
    ELSE s

RECURSIVE TrimRightSpace(_)
TrimRightSpace(s) ==
    IF s = <<>> THEN <<>>
    ELSE IF IsSpace(s[Len(s)]) THEN TrimRightSpace(SubSeq(s, 1, Len(s) - 1))
    ELSE s

\* strings.TrimSpace
TrimSpace(s) == TrimRightSpace(TrimLeftSpace(s))

\* strings.HasPrefix
HasPrefix(s, prefix) ==
    /\ Len(s) >= Len(prefix)
    /\ SubSeq(s, 1, Len(prefix)) = prefix

\* strings.HasSuffix (used by a mutant only)
HasSuffix(s, suffix) ==
    /\ Len(s) >= Len(suffix)
    /\ SubSeq(s, Len(s) - Len(suffix) + 1, Len(s)) = suffix

\* strings.Contains: substr occurs in s at some offset
Contains(s, substr) ==
    \E off \in 0..Len(s) :
        /\ off + Len(substr) <= Len(s)
        /\ SubSeq(s, off + 1, off + Len(substr)) = substr

----------------------------------------------------------------------------
(* getCNAMERecord, three versions.  An outcome of running dig is           *)
(* [stdout, stderr, failed]: failed is cmd.Run() returning a non-nil error. *)

\* main.go:30-50: NXDOMAIN is looked for in stderr when the run failed
getCNAMERecordNx(o) ==
    IF o.failed
    THEN IF Contains(o.stderr, NxMarker)
         THEN [cname |-> NxDomainText, err |-> FALSE]
         ELSE [cname |-> <<>>, err |-> TRUE]
    ELSE LET cname == TrimSpace(o.stdout)
         IN  IF cname = <<>>
             THEN [cname |-> NoCnameText, err |-> FALSE]
             ELSE [cname |-> cname, err |-> FALSE]

\* part_001:43-58 (the same text as main.go:131-146 and part_000:42-57):
\* stderr is not captured, every failed run is an error
getCNAMERecord(o) ==
    IF o.failed
    THEN [cname |-> <<>>, err |-> TRUE]
    ELSE LET cname == TrimSpace(o.stdout)
         IN  IF cname = <<>>
             THEN [cname |-> NoCnameText, err |-> FALSE]
             ELSE [cname |-> cname, err |-> FALSE]

\* Record{} of part_002
ZeroRecord == [CNAME |-> <<>>, Status |-> <<>>, Detail |-> <<>>]

\* part_002:37-74: a failed run is an error before stderr is looked at
getCNAMERecordStatus(o) ==
    IF o.failed
    THEN [record |-> ZeroRecord, err |-> TRUE]
    ELSE LET output == TrimSpace(o.stdout)
         IN  IF Contains(o.stderr, NxMarker)
             THEN [record |-> [CNAME |-> <<>>, Status |-> NxDomainText,
                               Detail |-> DetailNxDomain],
                   err |-> FALSE]
             ELSE IF output = <<>>
             THEN [record |-> [CNAME |-> <<>>, Status |-> StatusNoCname,
                               Detail |-> DetailNoError],
                   err |-> FALSE]
             ELSE [record |-> [CNAME |-> output, Status |-> StatusCnameFound,
                               Detail |-> DetailNoError],
                   err |-> FALSE]

----------------------------------------------------------------------------
(* extractWildcardDomain and matchesAnyPattern *)

\* mutant: every leading "*." label is removed, not only the first
RECURSIVE extractWildcardDomain_StripAll(_)
extractWildcardDomain_StripAll(cname) ==
    IF cname = NoCnameText THEN <<>>
    ELSE LET t == TrimSpace(cname)
         IN  IF HasPrefix(t, WildcardPrefix)
             THEN extractWildcardDomain_StripAll(SubSeq(t, 3, Len(t)))
             ELSE t

\* mutant: the "No CNAME record" text is not filtered out
extractWildcardDomain_NoSentinel(cname) ==
    LET t == TrimSpace(cname)
    IN  IF HasPrefix(t, WildcardPrefix) THEN SubSeq(t, 3, Len(t)) ELSE t

\* part_001:61-73
extractWildcardDomain(cname) ==
    IF cname = NoCnameText THEN <<>>
    ELSE LET t == TrimSpace(cname)
         IN  IF HasPrefix(t, WildcardPrefix)
             THEN SubSeq(t, 3, Len(t))
             ELSE t

\* the range loop of matchesAnyPattern from position j on
RECURSIVE matchesFrom(_, _, _)
matchesFrom(domain, pats, j) ==
    IF j > Len(pats) THEN FALSE
    ELSE IF Contains(domain, pats[j]) THEN TRUE
    ELSE matchesFrom(domain, pats, j + 1)

\* mutant: suffix matching instead of containment
matchesAnyPattern_Suffix(domain, pats) ==
    /\ domain # <<>>
    /\ \E j \in 1..Len(pats) : HasSuffix(domain, pats[j])

\* part_001:76-86
matchesAnyPattern(domain, pats) ==
    IF domain = <<>> THEN FALSE
    ELSE matchesFrom(domain, pats, 1)

\* part_000:60-70: the matcher of the version without a normalizer
matchesAnyPatternCname(cname, pats) ==
    IF cname = NoCnameText THEN FALSE
    ELSE matchesFrom(cname, pats, 1)

----------------------------------------------------------------------------
(* The five programs *)

\* main.go:1-99: map[string]string, NXDOMAIN recognised
MainNx == "main.go:1-99"

\* main.go:102-189: map[string]string
MainPlain == "main.go:102-189"

\* part_000: Record{CNAME, IsVulnerable}, matcher on the raw CNAME, full report
Part000 == "part_000"

\* part_001: Record{CNAME, IsVulnerable}, normalizer, filtered report file
Part001 == "part_001"

\* part_002: Record{CNAME, Status, Detail}
Part002 == "part_002"

Programs == {MainNx, MainPlain, Part000, Part001, Part002}

\* the programs that take a patterns file
WithPatterns == {Part000, Part001}

\* the call `getCNAMERecord(subdomain)` of checkCNAMERecords, per program
Resolve(p, o) ==
    IF p = MainNx THEN getCNAMERecordNx(o)
    ELSE IF p = Part002 THEN getCNAMERecordStatus(o)
    ELSE getCNAMERecord(o)

\* the value checkCNAMERecords stores for the subdomain, per program
NewRecord(p, r, pats) ==
    IF p \in {MainNx, MainPlain} THEN [CNAME |-> r.cname]
    ELSE IF p = Part000
    THEN [CNAME |-> r.cname,
          IsVulnerable |-> matchesAnyPatternCname(r.cname, pats)]
    ELSE IF p = Part001
    THEN [CNAME |-> r.cname,
          IsVulnerable |-> matchesAnyPattern(extractWildcardDomain(r.cname), pats)]
    ELSE r.record

\* make(map[string]...)
EmptyMap == [k \in {} |-> <<>>]

\* mutant: an existing key keeps its first value
MapStore_KeepFirst(m, k, v) ==
    [x \in DOMAIN m \cup {k} |-> IF x \in DOMAIN m THEN m[x] ELSE v]

\* mutant: the store drops every other key
MapStore_Reset(m, k, v) ==
    [x \in {k} |-> v]

\* results[subdomain] = v
MapStore(m, k, v) ==
    [x \in DOMAIN m \cup {k} |-> IF x = k THEN v ELSE m[x]]

\* mutant: the filter of the result file is missing
Writes_All(p, rec) == TRUE

\* whether main emits a line for the record: part_001 writes only the
\* records marked vulnerable, the other programs print every record
Writes(p, rec) ==
    IF p = Part001 THEN rec.IsVulnerable ELSE TRUE

\* the Printf / Fprintf line of main, as its fields
Line(p, k, rec) ==
    IF p \in {MainNx, MainPlain}
    THEN [Subdomain |-> k, CNAME |-> rec.CNAME]
    ELSE IF p = Part000
    THEN [Subdomain |-> k, CNAME |-> rec.CNAME,
          Vulnerable |-> IF rec.IsVulnerable THEN "Yes" ELSE "No"]
    ELSE IF p = Part001
    THEN [Subdomain |-> k, CNAME |-> rec.CNAME, Vulnerable |-> "Yes"]
    ELSE [Subdomain |-> k, CNAME |-> rec.CNAME, STATUS |-> rec.Status,
          Detail |-> rec.Detail]

\* mutant: the partial map is returned beside the error
ErrorReturn_Partial(m) ==
    [returned |-> TRUE, isNil |-> FALSE, results |-> m, err |-> TRUE]

\* `return nil, err`
ErrorReturn(m) ==
    [returned |-> TRUE, isNil |-> TRUE, results |-> EmptyMap, err |-> TRUE]

\* `return results, nil`
OkReturn(m) ==
    [returned |-> TRUE, isNil |-> FALSE, results |-> m, err |-> FALSE]

NotReturned ==
    [returned |-> FALSE, isNil |-> TRUE, results |-> EmptyMap, err |-> FALSE]

----------------------------------------------------------------------------
(* Inputs of a run *)

Hostnames == {"a.example.com", "b.example.com"}

SubdomainLists == UNION {[1..n -> Hostnames] : n \in 0..MaxSubs}

\* "v.io"
PatVio == <<"v", ".", "i", "o">>

\* ".v": matches the raw "*.v.io." but not the normalized "v.io."
PatDotV == <<".", "v">>

\* "CNAME": a fingerprint that occurs in the text "No CNAME record"
PatCname == <<"C", "N", "A", "M", "E">>

PatternLists == {<<PatVio>>, <<PatCname, PatVio>>, <<PatDotV>>}

\* what one run of dig may produce
DigOutcomes ==
    { \* a wildcard CNAME, "*.v.io.\n"
      [stdout |-> <<"*", ".", "v", ".", "i", "o", ".", "\n">>, stderr |-> <<>>,
       failed |-> FALSE],
      \* a CNAME, "c.io.\n"
      [stdout |-> <<"c", ".", "i", "o", ".", "\n">>, stderr |-> <<>>,
       failed |-> FALSE],
      \* no answer
      [stdout |-> <<"\n">>, stderr |-> <<>>, failed |-> FALSE],
      \* no answer, NXDOMAIN reported on stderr, exit status 0
      [stdout |-> <<>>, stderr |-> NxMarker, failed |-> FALSE],
      \* the run failed and stderr carries the NXDOMAIN marker
      [stdout |-> <<>>, stderr |-> NxMarker, failed |-> TRUE],
      \* the run failed otherwise
      [stdout |-> <<>>, stderr |-> <<>>, failed |-> TRUE] }

----------------------------------------------------------------------------
(* The run: main calls checkCNAMERecords, then reports *)

Init ==
    /\ prog \in Programs
    /\ subdomains \in SubdomainLists
    /\ patterns \in (IF prog \in WithPatterns THEN PatternLists ELSE {<<>>})
    /\ pc = "loop"
    /\ idx = 1
    /\ results = EmptyMap
    /\ ret = NotReturned
    /\ calls = <<>>
    /\ report = <<>>
    /\ pending = {}
    /\ op = "none"
    /\ arg = <<>>
    /\ out = <<>>

\* the loop reaches the next subdomain and getCNAMERecord starts dig: cmd.Run()
RunDig ==
    /\ pc = "loop"
    /\ idx <= Len(subdomains)
    /\ calls' = Append(calls, [subdomain |-> subdomains[idx], outcome |-> <<>>])
    /\ pc' = "resolving"
    /\ UNCHANGED <<prog, subdomains, patterns, idx, results, ret, report,
                   pending, pureVars>>

\* mutant: the error is swallowed and the loop goes on with the next entry
DigReturnsError_Continue ==
    /\ pc = "resolving"
    /\ \E o \in DigOutcomes :
          /\ Resolve(prog, o).err
          /\ calls' = [calls EXCEPT ![Len(calls)].outcome = <<o>>]
    /\ idx' = idx + 1
    /\ pc' = "loop"
    /\ UNCHANGED <<prog, subdomains, patterns, results, ret, report, pending,
                   pureVars>>

\* dig ends and getCNAMERecord returns an error: checkCNAMERecords returns
\* nil, err and main stops in log.Fatalf
DigReturnsError ==
    /\ pc = "resolving"
    /\ \E o \in DigOutcomes :
          /\ Resolve(prog, o).err
          /\ calls' = [calls EXCEPT ![Len(calls)].outcome = <<o>>]
    /\ ret' = ErrorReturn(results)
    /\ pc' = "fatal"
    /\ UNCHANGED <<prog, subdomains, patterns, idx, results, report, pending,
                   pureVars>>

\* dig ends and getCNAMERecord returns a value: the record is stored under
\* the subdomain and the loop goes on
DigReturnsValue ==
    /\ pc = "resolving"
    /\ \E o \in DigOutcomes :
          /\ ~Resolve(prog, o).err
          /\ calls' = [calls EXCEPT ![Len(calls)].outcome = <<o>>]
          /\ results' = MapStore(results, subdomains[idx],
                                 NewRecord(prog, Resolve(prog, o), patterns))
    /\ idx' = idx + 1
    /\ pc' = "loop"
    /\ UNCHANGED <<prog, subdomains, patterns, ret, report, pending, pureVars>>

\* the loop is over: `return results, nil`; main starts `range results`
ScanReturns ==
    /\ pc = "loop"
    /\ idx > Len(subdomains)
    /\ ret' = OkReturn(results)
    /\ pending' = DOMAIN results
    /\ pc' = "report"
    /\ UNCHANGED <<prog, subdomains, patterns, idx, results, calls, report,
                   pureVars>>

\* one iteration of `for subdomain, record := range results` in main; Go
\* leaves the iteration order of a map unspecified
ReportLine ==
    /\ pc = "report"
    /\ \E k \in pending :
          /\ report' = IF Writes(prog, ret.results[k])
                       THEN Append(report, Line(prog, k, ret.results[k]))
                       ELSE report
          /\ pending' = pending \ {k}
    /\ UNCHANGED <<prog, subdomains, patterns, pc, idx, results, ret, calls,
                   pureVars>>

\* the range loop of main is over and main returns
Finish ==
    /\ pc = "report"
    /\ pending = {}
    /\ pc' = "exit"
    /\ UNCHANGED <<prog, subdomains, patterns, idx, results, ret, calls,
                   report, pending, pureVars>>

Next ==
    \/ RunDig
    \/ DigReturnsError
    \/ DigReturnsValue
    \/ ScanReturns
    \/ ReportLine
    \/ Finish

Spec == Init /\ [][Next]_vars

\* main runs to its end, and every dig process started ends
FairSpec == Spec /\ WF_vars(Next)

----------------------------------------------------------------------------
(* The functions on their own: one call on an enumerated argument *)

Chars == {" ", "*", ".", "a", "A"}

Strings(n) == UNION {[1..k -> Chars] : k \in 0..n}

\* "a.example.com.s3.amazonaws.com."
LongTarget == <<"a", ".", "e", "x", "a", "m", "p", "l", "e", ".", "c", "o", "m", ".", "s", "3", ".", "a", "m", "a", "z", "o", "n", "a", "w", "s", ".", "c", "o", "m", ".">>

\* "amazonaws.com"
PatAmazon == <<"a", "m", "a", "z", "o", "n", "a", "w", "s", ".", "c", "o", "m">>

StdoutInputs == Strings(MaxLen) \cup {<<"\n">>, <<"a", ".", "\n">>, LongTarget}

StderrInputs ==
    { <<>>,
      NxMarker,
      \* ";; status: NXDOMAIN\n"
      <<";", ";", " ">> \o NxMarker \o <<"\n">>,
      \* "status: NOERROR"
      <<"s", "t", "a", "t", "u", "s", ":", " ", "N", "O", "E", "R", "R", "O", "R">> }

OutcomeInputs == [stdout : StdoutInputs, stderr : StderrInputs, failed : BOOLEAN]

CnameInputs ==
    Strings(MaxLen) \cup {NoCnameText, LongTarget, <<"*", ".", "*", ".", "a">>,
                          <<" ", "*", ".", "a", ".", "\n">>}

DomainInputs == Strings(MaxDomLen) \cup {LongTarget}

PatternPool == {<<>>, <<"a">>, <<"A">>, <<".", "a">>, PatAmazon}

PatternInputs == UNION {[1..n -> PatternPool] : n \in 0..MaxPatterns}

MatchInputs == [domain : DomainInputs, patterns : PatternInputs]

PureInit ==
    /\ prog = "none"
    /\ subdomains = <<>>
    /\ patterns = <<>>
    /\ pc = "pure"
    /\ idx = 1
    /\ results = EmptyMap
    /\ ret = NotReturned
    /\ calls = <<>>
    /\ report = <<>>
    /\ pending = {}
    /\ out = <<>>
    /\ \/ op = "getCNAMERecordNx" /\ arg \in OutcomeInputs
       \/ op = "getCNAMERecord" /\ arg \in OutcomeInputs
       \/ op = "getCNAMERecordStatus" /\ arg \in OutcomeInputs
       \/ op = "extractWildcardDomain" /\ arg \in CnameInputs
       \/ op = "matchesAnyPattern" /\ arg \in MatchInputs

CallGetCNAMERecordNx ==
    /\ op = "getCNAMERecordNx" /\ out = <<>>
    /\ out' = <<getCNAMERecordNx(arg)>>
    /\ UNCHANGED <<scanVars, op, arg>>

CallGetCNAMERecord ==
    /\ op = "getCNAMERecord" /\ out = <<>>
    /\ out' = <<getCNAMERecord(arg)>>
    /\ UNCHANGED <<scanVars, op, arg>>

CallGetCNAMERecordStatus ==
    /\ op = "getCNAMERecordStatus" /\ out = <<>>
    /\ out' = <<getCNAMERecordStatus(arg)>>
    /\ UNCHANGED <<scanVars, op, arg>>

CallExtractWildcardDomain ==
    /\ op = "extractWildcardDomain" /\ out = <<>>
    /\ out' = <<extractWildcardDomain(arg)>>
    /\ UNCHANGED <<scanVars, op, arg>>

CallMatchesAnyPattern ==
    /\ op = "matchesAnyPattern" /\ out = <<>>
    /\ out' = <<matchesAnyPattern(arg.domain, arg.patterns)>>
    /\ UNCHANGED <<scanVars, op, arg>>

PureNext ==
    \/ CallGetCNAMERecordNx
    \/ CallGetCNAMERecord
    \/ CallGetCNAMERecordStatus
    \/ CallExtractWildcardDomain
    \/ CallMatchesAnyPattern

PureSpec == PureInit /\ [][PureNext]_vars

----------------------------------------------------------------------------
(* What the claims speak of *)

\* the four outcome tags as the classification contract decides them
ContractOutcome(o) ==
    IF o.failed /\ Contains(o.stderr, NxMarker)
    THEN [tag |-> "NxDomain", target |-> <<>>]
    ELSE IF o.failed
    THEN [tag |-> "QueryError", target |-> <<>>]
    ELSE IF TrimSpace(o.stdout) = <<>>
    THEN [tag |-> "NoCname", target |-> <<>>]
    ELSE [tag |-> "CnameFound", target |-> TrimSpace(o.stdout)]

\* the tag a (string, error) result of getCNAMERecord stands for
OutcomeOfString(r) ==
    IF r.err THEN [tag |-> "QueryError", target |-> <<>>]
    ELSE IF r.cname = NxDomainText THEN [tag |-> "NxDomain", target |-> <<>>]
    ELSE IF r.cname = NoCnameText THEN [tag |-> "NoCname", target |-> <<>>]
    ELSE [tag |-> "CnameFound", target |-> r.cname]

\* the tag a (Record, error) result of part_002's getCNAMERecord stands for
OutcomeOfStatus(r) ==
    IF r.err THEN [tag |-> "QueryError", target |-> <<>>]
    ELSE IF r.record.Status = NxDomainText
    THEN [tag |-> "NxDomain", target |-> <<>>]
    ELSE IF r.record.Status = StatusNoCname
    THEN [tag |-> "NoCname", target |-> <<>>]
    ELSE [tag |-> "CnameFound", target |-> r.record.CNAME]

\* p occurs in d, character by character
Occurs(p, d) ==
    \E off \in 0..Len(d) :
        /\ off + Len(p) <= Len(d)
        /\ \A k \in 1..Len(p) : d[off + k] = p[k]

AnyOccurs(pats, d) == \E j \in 1..Len(pats) : Occurs(pats[j], d)

Permutations(n) ==
    {f \in [1..n -> 1..n] : \A i, j \in 1..n : i # j => f[i] # f[j]}

\* the stored entries of the input so far: entries 1..idx-1
Stored == 1..(idx - 1)

\* the last stored entry of the input that names k
LastStored(k) ==
    CHOOSE i \in Stored :
        /\ subdomains[i] = k
        /\ \A j \in Stored : subdomains[j] = k => j <= i

\* the last entry of the input that names k
LastIdx(k) ==
    CHOOSE i \in 1..Len(subdomains) :
        /\ subdomains[i] = k
        /\ \A j \in 1..Len(subdomains) : subdomains[j] = k => j <= i

\* the outcome of the i-th dig run, once it has ended
OutcomeAt(i) == calls[i].outcome[1]

Ended(i) == calls[i].outcome # <<>>

\* the text the program hands to its matcher: part_001 normalizes the
\* target first, part_000 has no normalizer and matches the target as it is
MatchedText(p, target) ==
    IF p = Part001 THEN extractWildcardDomain(target) ELSE target

Terminated == pc \in {"exit", "fatal"}

----------------------------------------------------------------------------
(* C1 *)

\* C1: every version of getCNAMERecord classifies an outcome of dig as the
\* contract does: NxDomain iff the run failed and stderr holds
\* "status: NXDOMAIN", QueryError iff it failed without the marker, NoCname
\* iff it succeeded with blank stdout, CnameFound(trimmed stdout) otherwise.
C1_Classification ==
    /\ (op \in {"getCNAMERecordNx", "getCNAMERecord"} /\ out # <<>>)
          => OutcomeOfString(out[1]) = ContractOutcome(arg)
    /\ (op = "getCNAMERecordStatus" /\ out # <<>>)
          => OutcomeOfStatus(out[1]) = ContractOutcome(arg)

\* the version of main.go:30-50 alone does classify as the contract says
NxVersionConforms ==
    (op = "getCNAMERecordNx" /\ out # <<>>)
        => OutcomeOfString(out[1]) = ContractOutcome(arg)

----------------------------------------------------------------------------
(* C2 *)

----------------------------------------------------------------------------
(* C3 *)

\* C3: once a resolution has ended in QueryError, checkCNAMERecords has
\* returned the error and a nil map, main has stopped and nothing was
\* reported, whatever the position of the failing subdomain.
C3_AllOrNothing ==
    (\E i \in 1..Len(calls) :
        Ended(i) /\ ContractOutcome(OutcomeAt(i)).tag = "QueryError")
    =>  /\ ret.returned
        /\ ret.err
        /\ ret.isNil
        /\ DOMAIN ret.results = {}
        /\ pc = "fatal"
        /\ report = <<>>

\* a QueryError at a later position, with records already in the local map
C3_Witness ==
    /\ Len(calls) >= 2
    /\ Ended(Len(calls))
    /\ ContractOutcome(OutcomeAt(Len(calls))).tag = "QueryError"
    /\ DOMAIN results # {}
    /\ ret.returned

----------------------------------------------------------------------------
(* C4 *)

\* C4: matchesAnyPattern is false on the empty domain and otherwise true
\* iff some fingerprint occurs in the domain as a literal, case-sensitive
\* substring; permuting the fingerprints does not change the result.
C4_Matches ==
    (op = "matchesAnyPattern" /\ out # <<>>) =>
        /\ out[1] = (arg.domain # <<>> /\ AnyOccurs(arg.patterns, arg.domain))
        /\ \A f \in Permutations(Len(arg.patterns)) :
              matchesAnyPattern(arg.domain,
                                [i \in 1..Len(arg.patterns) |-> arg.patterns[f[i]]])
                  = out[1]

\* "a.example.com.s3.amazonaws.com." matches "amazonaws.com", listed second
C4_Witness ==
    /\ op = "matchesAnyPattern"
    /\ arg.domain = LongTarget
    /\ arg.patterns = <<<<"A">>, PatAmazon>>
    /\ out = <<TRUE>>

----------------------------------------------------------------------------
(* C5 *)

\* the normalizer as the claim words it
ClaimedNormalize(t) ==
    IF t = <<>> \/ t = NoCnameText THEN <<>>
    ELSE IF Len(t) >= 2 /\ t[1] = "*" /\ t[2] = "."
    THEN SubSeq(t, 3, Len(t))
    ELSE TrimSpace(t)

----------------------------------------------------------------------------
(* C6 *)

\* C6: a successful scan returns a map whose keys are the distinct input
\* subdomains, and the record of each key is the one computed from the
\* resolution of the key's last occurrence in the input.
C6_LastWriteWins ==
    (ret.returned /\ ~ret.err) =>
        /\ DOMAIN ret.results = {subdomains[i] : i \in 1..Len(subdomains)}
        /\ \A k \in DOMAIN ret.results :
              ret.results[k] =
                  NewRecord(prog, Resolve(prog, OutcomeAt(LastIdx(k))), patterns)

\* a successful scan of an input that names a subdomain twice, the two
\* resolutions giving different records
C6_Witness ==
    /\ ret.returned /\ ~ret.err
    /\ \E i, j \in 1..Len(subdomains) :
          /\ i < j
          /\ subdomains[i] = subdomains[j]
          /\ j = LastIdx(subdomains[j])
          /\ NewRecord(prog, Resolve(prog, OutcomeAt(i)), patterns)
                # ret.results[subdomains[j]]

----------------------------------------------------------------------------
(* C7 *)

\* C7 (as claimed): once the map holds a record for a key, the key keeps
\* that record in every later state.
C7_NeverMutated ==
    [][\A k \in DOMAIN results :
          k \in DOMAIN results' /\ results'[k] = results[k]]_vars

\* C7 (amended): every entry processed is stored in one step, at the moment
\* the loop moves past it; a key never leaves the map, a store changes the
\* key of the entry being processed only, and the record of a key changes
\* only when a later occurrence of the same subdomain is stored, which
\* replaces it.
C7_ReplacedOnlyByDuplicate ==
    [][/\ \A k \in DOMAIN results :
             /\ k \in DOMAIN results'
             /\ results'[k] # results[k] =>
                   /\ pc = "resolving"
                   /\ k = subdomains[idx]
                   /\ \E i \in Stored : subdomains[i] = k
       /\ results' # results =>
             /\ pc = "resolving"
             /\ idx' = idx + 1
             /\ DOMAIN results' = DOMAIN results \cup {subdomains[idx]}
       /\ idx' # idx =>
             /\ idx' = idx + 1
             /\ subdomains[idx] \in DOMAIN results'
             /\ results'[subdomains[idx]] =
                   NewRecord(prog, Resolve(prog, calls'[idx].outcome[1]), patterns)]_vars

\* a duplicate has been stored and its record differs from the one the
\* first occurrence produced
C7_Witness ==
    /\ pc = "loop"
    /\ \E i, j \in Stored :
          /\ i < j
          /\ subdomains[i] = subdomains[j]
          /\ j = LastStored(subdomains[j])
          /\ NewRecord(prog, Resolve(prog, OutcomeAt(i)), patterns)
                # results[subdomains[j]]

----------------------------------------------------------------------------
(* C8 *)

\* C8: the lines of the report follow the order of the input: of two
\* lines, the earlier is for the subdomain whose last occurrence in the
\* input is earlier.
C8_ReportInInputOrder ==
    \A a, b \in 1..Len(report) :
        a < b => LastIdx(report[a].Subdomain) < LastIdx(report[b].Subdomain)

----------------------------------------------------------------------------
(* C9 *)

\* C9: in part_001 every line written is a "Vulnerable: Yes" line of a
\* record marked vulnerable; when main ends after a successful scan the
\* file holds exactly one line per vulnerable record and none for the
\* others; after a failed scan nothing is written.
C9_FilteredReport ==
    prog = Part001 =>
        /\ \A i \in 1..Len(report) :
              /\ report[i].Vulnerable = "Yes"
              /\ report[i].Subdomain \in DOMAIN ret.results
              /\ ret.results[report[i].Subdomain].IsVulnerable
              /\ report[i].CNAME = ret.results[report[i].Subdomain].CNAME
        /\ pc = "exit" =>
              \A k \in DOMAIN ret.results :
                  Cardinality({i \in 1..Len(report) : report[i].Subdomain = k})
                      = IF ret.results[k].IsVulnerable THEN 1 ELSE 0
        /\ ret.err => report = <<>>

\* scenario D: two subdomains, one vulnerable, one line in the file
C9_Witness ==
    /\ prog = Part001
    /\ pc = "exit"
    /\ Cardinality(DOMAIN ret.results) = 2
    /\ Len(report) = 1
    /\ \E k \in DOMAIN ret.results : ~ret.results[k].IsVulnerable

----------------------------------------------------------------------------
(* C10 *)

\* the i-th dig run is for the i-th entry, at most one run is in flight,
\* every earlier run has ended without QueryError, and a run starts only
\* when the records of all earlier entries are stored
Sequential ==
    /\ Len(calls) <= Len(subdomains)
    /\ Len(calls) \in {idx - 1, idx}
    /\ \A i \in 1..Len(calls) : calls[i].subdomain = subdomains[i]
    /\ \A i \in 1..(Len(calls) - 1) :
          /\ Ended(i)
          /\ ContractOutcome(OutcomeAt(i)).tag # "QueryError"
    /\ pc = "resolving" =>
          /\ Len(calls) = idx
          /\ ~Ended(idx)
          /\ \A j \in Stored : subdomains[j] \in DOMAIN results
    /\ pc # "resolving" => \A i \in 1..Len(calls) : Ended(i)

\* C10: dig is run strictly in input order, once per entry, one run at a
\* time, never after a QueryError, at most len(subdomains) times; and when
\* every run ends the program terminates.
C10_SequentialAndTerminates ==
    /\ []Sequential
    /\ <>Terminated

\* all entries of a full-length input with both hostnames were resolved
C10_Witness ==
    /\ Terminated
    /\ Len(calls) = MaxSubs
    /\ \E i \in 1..Len(subdomains) : subdomains[i] # subdomains[1]

====
